---------------------------- MODULE Spec2Model ----------------------------
(***************************************************************************)
(* Model of parse_financials.py: the per-document extraction strategies    *)
(* (context scan, inline-XBRL fact reader, pandas table extractor,         *)
(* BeautifulSoup table scanner) and the batch loop of main() that          *)
(* concatenates, de-duplicates and writes their facts.                     *)
(*                                                                         *)
(* Text is modelled as a sequence of one-character strings, so that the    *)
(* regular expressions and string methods of the source are computed, not  *)
(* assumed.  The empty sequence stands for an absent attribute, an empty   *)
(* text, and the NaN pandas stores for an empty table cell.                *)
(***************************************************************************)
EXTENDS Integers, Sequences, FiniteSets, TLC

VARIABLES
    infolist,   \* z.infolist(): the archive's entries, in archive order
    infos,      \* main: the sorted .html/.xhtml entries
    idx,        \* main: position of the for loop in infos
    pc,         \* main: where the run is
    buf,        \* main: the document being processed (None outside an iteration)
    company,    \* main: company of the current document
    dates,      \* main: dates of the current document
    rows,       \* main: rows of the current document
    out,        \* the records written to OUT_CSV, in order
    ran,        \* history: the strategies that returned for the current document
    raised,     \* history: the call that raised out of main, if any
    handled     \* history: filenames of the documents whose rows were written

vars == <<infolist, infos, idx, pc, buf, company, dates, rows, out, ran, raised, handled>>

-----------------------------------------------------------------------------
(* Bounds of the model. *)

\* documents (.html/.xhtml entries) in the archive
MaxDocs == 2
\* <table> elements in a document of the strategy specification
MaxTables == 3
\* ix:nonFraction elements in a document of the strategy specification
MaxElems == 2

-----------------------------------------------------------------------------
(* Characters and the character classes of Python's re and str. *)

Digit == {"0", "1", "2", "3", "4", "5", "6", "7", "8", "9"}

Upper == {"A", "B", "C", "D", "E", "F", "G", "H", "I", "J", "K", "L", "M",
          "N", "O", "P", "Q", "R", "S", "T", "U", "V", "W", "X", "Y", "Z"}

Lower == {"a", "b", "c", "d", "e", "f", "g", "h", "i", "j", "k", "l", "m",
          "n", "o", "p", "q", "r", "s", "t", "u", "v", "w", "x", "y", "z"}

\* [A-Za-z]
Alpha == Upper \cup Lower

\* \w
WordChar == Alpha \cup Digit \cup {"_"}

\* '\xa0', the no-break space
Nbsp == " "

\* what str.strip() removes
Space == {" ", "\t", "\n", Nbsp}

\* [£€\$]
CurrencyChar == {"£", "€", "$"}

\* the characters of the model's dates and filenames, in code-point order
CodeOrder == <<"-", ".", "0", "1", "2", "3", "4", "5", "6", "7", "8", "9",
               "A", "B", "C", "D", "E", "F", "G", "H", "I", "J", "K", "L", "M",
               "N", "O", "P", "Q", "R", "S", "T", "U", "V", "W", "X", "Y", "Z",
               "a", "b", "c", "d", "e", "f", "g", "h", "i", "j", "k", "l", "m",
               "n", "o", "p", "q", "r", "s", "t", "u", "v", "w", "x", "y", "z">>

None == <<>>

-----------------------------------------------------------------------------
(* String methods. *)

\* s[i:] (1-based, inclusive)
From(s, i) == SubSeq(s, i, Len(s))

\* str.strip()
RECURSIVE LStrip(_)
LStrip(s) == IF s # <<>> /\ Head(s) \in Space THEN LStrip(Tail(s)) ELSE s

RECURSIVE RStrip(_)
RStrip(s) ==
    IF s # <<>> /\ s[Len(s)] \in Space THEN RStrip(SubSeq(s, 1, Len(s) - 1)) ELSE s

Strip(s) == RStrip(LStrip(s))

\* str.replace(c, '') for every c of cs; re.sub('[...]', '', s)
Remove(s, cs) == SelectSeq(s, LAMBDA c : c \notin cs)

\* str.replace(a, b) for single characters
Replace(s, a, b) == [i \in 1..Len(s) |-> IF s[i] = a THEN b ELSE s[i]]

\* str.startswith
StartsWith(s, p) == Len(p) <= Len(s) /\ SubSeq(s, 1, Len(p)) = p

\* str.endswith
EndsWith(s, p) == Len(p) <= Len(s) /\ SubSeq(s, Len(s) - Len(p) + 1, Len(s)) = p

\* name.split(':')[-1]: the text after the last colon
RECURSIVE LastSegment(_)
LastSegment(s) ==
    IF \E i \in 1..Len(s) : s[i] = ":"
    THEN LastSegment(From(s, (CHOOSE i \in 1..Len(s) : s[i] = ":") + 1))
    ELSE s

\* re.sub(r'\W+', '_', s): every maximal run of non-word characters becomes one "_"
RECURSIVE SubNonWord(_)
SubNonWord(s) ==
    IF s = <<>> THEN <<>>
    ELSE IF Head(s) \in WordChar THEN <<Head(s)>> \o SubNonWord(Tail(s))
    ELSE IF Len(s) >= 2 /\ s[2] \notin WordChar THEN SubNonWord(Tail(s))
    ELSE <<"_">> \o SubNonWord(Tail(s))

AllDigits(s) == s # <<>> /\ \A i \in 1..Len(s) : s[i] \in Digit

\* re.fullmatch(r'-?\d+(\.\d+)?', s)
FullMatchDecimal(s) ==
    LET u == IF s # <<>> /\ Head(s) = "-" THEN Tail(s) ELSE s
    IN  \/ AllDigits(u)
        \/ \E k \in 2..(Len(u) - 1) :
              /\ u[k] = "."
              /\ AllDigits(SubSeq(u, 1, k - 1))
              /\ AllDigits(From(u, k + 1))

\* pandas Series.str.match(r'-?\d+(\.\d+)?'): re.match, anchored at the start only
StrMatchDecimal(s) ==
    LET u == IF s # <<>> /\ Head(s) = "-" THEN Tail(s) ELSE s
    IN  u # <<>> /\ Head(u) \in Digit

\* whether 20\d{2} matches s at position p
YearAt(s, p) ==
    /\ p + 3 <= Len(s)
    /\ s[p] = "2"
    /\ s[p + 1] = "0"
    /\ s[p + 2] \in Digit
    /\ s[p + 3] \in Digit

\* re.search(r'(20\d{2})', s).group(1), None without a match
SearchYear(s) ==
    LET P == {p \in 1..Len(s) : YearAt(s, p)}
    IN  IF P = {} THEN None
        ELSE LET p == CHOOSE q \in P : \A r \in P : q <= r IN SubSeq(s, p, p + 3)

\* re.search(r'\b(20\d{2})\b', s).group(1), None without a match
SearchYearWord(s) ==
    LET P == {p \in 1..Len(s) :
                 /\ YearAt(s, p)
                 /\ (p = 1 \/ s[p - 1] \notin WordChar)
                 /\ (p + 3 = Len(s) \/ s[p + 4] \notin WordChar)}
    IN  IF P = {} THEN None
        ELSE LET p == CHOOSE q \in P : \A r \in P : q <= r IN SubSeq(s, p, p + 3)

\* re.fullmatch(r'[£€\$]+', s)
FullMatchCurrency(s) == s # <<>> /\ \A i \in 1..Len(s) : s[i] \in CurrencyChar

\* re.search(r'[A-Za-z]', s)
HasAlpha(s) == \E i \in 1..Len(s) : s[i] \in Alpha

\* digits, single underscores allowed between them (Python numeric literal part)
DigitPart(s) ==
    /\ s # <<>>
    /\ s[1] \in Digit
    /\ s[Len(s)] \in Digit
    /\ \A i \in 1..Len(s) : s[i] \in Digit \cup {"_"}
    /\ \A i \in 1..(Len(s) - 1) : ~(s[i] = "_" /\ s[i + 1] = "_")

\* the mantissa of a float literal: digits, digits. , digits.digits , .digits
Mantissa(s) ==
    \/ DigitPart(s)
    \/ \E k \in 1..Len(s) :
          /\ s[k] = "."
          /\ k = 1 \/ DigitPart(SubSeq(s, 1, k - 1))
          /\ k = Len(s) \/ DigitPart(From(s, k + 1))
          /\ Len(s) > 1

Unsigned(s) == IF s # <<>> /\ Head(s) \in {"+", "-"} THEN Tail(s) ELSE s

UpperSeq == <<"A", "B", "C", "D", "E", "F", "G", "H", "I", "J", "K", "L", "M",
              "N", "O", "P", "Q", "R", "S", "T", "U", "V", "W", "X", "Y", "Z">>

LowerSeq == <<"a", "b", "c", "d", "e", "f", "g", "h", "i", "j", "k", "l", "m",
              "n", "o", "p", "q", "r", "s", "t", "u", "v", "w", "x", "y", "z">>

\* str.lower()
Lowered(s) ==
    [i \in 1..Len(s) |->
        IF s[i] \in Upper
        THEN LowerSeq[CHOOSE k \in 1..26 : UpperSeq[k] = s[i]]
        ELSE s[i]]

\* whether float(s) returns rather than raising ValueError
FloatParses(s) ==
    LET u == Unsigned(Strip(s))
    IN  \/ Lowered(u) \in {<<"n", "a", "n">>, <<"i", "n", "f">>,
                           <<"i", "n", "f", "i", "n", "i", "t", "y">>}
        \/ Mantissa(u)
        \/ \E k \in 2..(Len(u) - 1) :
              /\ u[k] \in {"e", "E"}
              /\ Mantissa(SubSeq(u, 1, k - 1))
              /\ AllDigits(Unsigned(From(u, k + 1)))

\* whether pd.to_numeric(s, errors='coerce') is not NaN for the string s
ToNumericNotNa(s) ==
    LET u == Unsigned(Strip(s))
    IN  \/ Lowered(u) \in {<<"i", "n", "f">>, <<"i", "n", "f", "i", "n", "i", "t", "y">>}
        \/ Mantissa(u) /\ "_" \notin {u[i] : i \in 1..Len(u)}
        \/ \E k \in 2..(Len(u) - 1) :
              /\ u[k] \in {"e", "E"}
              /\ Mantissa(SubSeq(u, 1, k - 1))
              /\ "_" \notin {u[i] : i \in 1..Len(u)}
              /\ AllDigits(Unsigned(From(u, k + 1)))

\* a < b in str order, for strings over CodeOrder
Ord(c) == CHOOSE i \in 1..Len(CodeOrder) : CodeOrder[i] = c

RECURSIVE StrLess(_, _)
StrLess(a, b) ==
    IF b = <<>> THEN FALSE
    ELSE IF a = <<>> THEN TRUE
    ELSE IF Head(a) = Head(b) THEN StrLess(Tail(a), Tail(b))
    ELSE Ord(Head(a)) < Ord(Head(b))

\* sorted(S) for a set of strings
RECURSIVE SortedAsc(_)
SortedAsc(S) ==
    IF S = {} THEN <<>>
    ELSE LET m == CHOOSE a \in S : \A b \in S : b = a \/ StrLess(a, b)
         IN  <<m>> \o SortedAsc(S \ {m})

\* sorted(S, reverse=True) for a set of strings
RECURSIVE SortedDesc(_)
SortedDesc(S) ==
    IF S = {} THEN <<>>
    ELSE LET m == CHOOSE a \in S : \A b \in S : b = a \/ StrLess(b, a)
         IN  <<m>> \o SortedDesc(S \ {m})

\* the concatenation of a sequence of sequences
RECURSIVE Flatten(_)
Flatten(ss) == IF ss = <<>> THEN <<>> ELSE Head(ss) \o Flatten(Tail(ss))

-----------------------------------------------------------------------------
(* A document: what the parsers see in the bytes of one archive entry.     *)
(*   wellFormed   whether lxml's iterparse reads the bytes to the end; if  *)
(*                not it raises XMLSyntaxError                             *)
(*   identifiers  the xbrli:identifier elements: [inEntity, text]          *)
(*   contexts     the xbrli:context elements: [id, endDate]                *)
(*   elems        the ix:nonFraction elements:                             *)
(*                [name, contextRef, text, title, unitRef]                 *)
(*   tables       the <table> elements: rows of cell texts                 *)
(* A fact carries, beside the six CSV fields, three history fields that    *)
(* the writer does not write: src (the strategy), at (the element, or the  *)
(* table, row and column it was read from) and hdr (the header cell of its *)
(* column).                                                                *)

\* FirstDate without the startswith test: the most recent date, whatever the year
FirstDateAnyYear(ds, yr) == IF ds = <<>> THEN None ELSE ds[1]

\* the first d of dates with d.startswith(yr): next((d for d in dates if ...), None)
FirstDate(ds, yr) ==
    LET P == {i \in 1..Len(ds) : StartsWith(ds[i], yr)}
    IN  IF P = {} THEN None ELSE ds[CHOOSE i \in P : \A j \in P : i <= j]

\* the contexts dict: id -> stripped endDate text, a later context replacing an earlier
ScanContexts(ctxs) ==
    LET ok(i) == ctxs[i].id # <<>> /\ ctxs[i].endDate # <<>>
        ids == {ctxs[i].id : i \in {j \in 1..Len(ctxs) : ok(j)}}
        last(cid) == CHOOSE i \in 1..Len(ctxs) :
                        /\ ok(i) /\ ctxs[i].id = cid
                        /\ \A j \in 1..Len(ctxs) : (ok(j) /\ ctxs[j].id = cid) => j <= i
    IN  [cid \in ids |-> Strip(ctxs[last(cid)].endDate)]

\* whether the iterparse passes over the document raise
ParseRaises(d) == ~d.wellFormed

\* extract_company_and_dates, for a document it does not raise on
extract_company_and_dates(d) ==
    LET E == {i \in 1..Len(d.identifiers) : d.identifiers[i].inEntity}
        contexts == ScanContexts(d.contexts)
    IN  [company |-> IF E = {} THEN <<>>
                     ELSE Strip(d.identifiers[CHOOSE i \in E : \A j \in E : j <= i].text),
         dates   |-> SortedDesc({contexts[c] : c \in DOMAIN contexts})]

\* the dict built for one fact
Fact(co, pe, tag, label, val, unit, src, at, hdr) ==
    [company_number |-> co, period_end |-> pe, metric_tag |-> tag,
     metric_label |-> label, value |-> val, unit |-> unit,
     src |-> src, at |-> at, hdr |-> hdr]

-----------------------------------------------------------------------------
(* parse_instance_fileobj: the inline-XBRL fact reader. *)

\* val = (fact.text or '').strip().replace(',', '')
ElemValue(e) == Remove(Strip(e.text), {","})

\* ElemKept without the float(val) test
ElemKeptAnyText(e, contexts) == ~(e.name = <<>> \/ e.contextRef \notin DOMAIN contexts)

\* the element passes both filters of the loop: name and contextRef, then float(val)
ElemKept(e, contexts) ==
    /\ ~(e.name = <<>> \/ e.contextRef \notin DOMAIN contexts)
    /\ FloatParses(ElemValue(e))

parse_instance_fileobj(d) ==
    LET co == extract_company_and_dates(d).company
        contexts == ScanContexts(d.contexts)
        one(i) ==
            LET e == d.elems[i]
            IN  IF ElemKept(e, contexts)
                THEN <<Fact(co, contexts[e.contextRef], LastSegment(e.name),
                            Strip(e.title), ElemValue(e), Strip(e.unitRef),
                            "structured", <<i>>, None)>>
                ELSE <<>>
    IN  Flatten([i \in 1..Len(d.elems) |-> one(i)])

-----------------------------------------------------------------------------
(* find_balance_sheet_df and process_table: the pandas table extractor.    *)
(* A DataFrame is [columns, data, tbl]: the header texts, the rows of      *)
(* cells (None for NaN), and the index of the <table> it was read from.    *)

Max(S) == CHOOSE m \in S : \A n \in S : n <= m

\* a row padded with NaN to n cells
Pad(row, n) == [c \in 1..n |-> IF c <= Len(row) THEN row[c] ELSE None]

\* pd.read_html(..., header=0): one DataFrame per table that has rows, the
\* first row its header; <<>> stands for the ValueError raised without tables.
\* A cell is kept as the text astype(str) gives for it.
read_html(d) ==
    LET T == d.tables
        frame(t) ==
            IF T[t] = <<>> THEN <<>>
            ELSE LET n == Max({Len(T[t][r]) : r \in 1..Len(T[t])})
                 IN  <<[columns |-> Pad(T[t][1], n),
                        data    |-> [r \in 1..(Len(T[t]) - 1) |-> Pad(T[t][r + 1], n)],
                        tbl     |-> t]>>
    IN  Flatten([t \in 1..Len(T) |-> frame(t)])

\* str(x) of a cell after astype(str): NaN prints as "nan"
CellStr(x) == IF x = None THEN <<"n", "a", "n">> ELSE x

\* the column has a cell that pd.to_numeric reads once "(", ")" and "," are removed
NumericColumn(df, c) ==
    \E r \in 1..Len(df.data) :
        ToNumericNotNa(Remove(CellStr(df.data[r][c]), {"(", ")", ","}))

\* the test of one DataFrame: at least 3 columns, at least 2 numeric among columns[1:]
Qualifies(df) ==
    /\ Len(df.columns) >= 3
    /\ Cardinality({c \in 2..Len(df.columns) : NumericColumn(df, c)}) >= 2

\* find_balance_sheet_df without the column tests: the first DataFrame
find_first_df(d) == IF read_html(d) = <<>> THEN None ELSE read_html(d)[1]

\* find_balance_sheet_df: the first qualifying DataFrame, None without one or
\* when read_html raised
find_balance_sheet_df(d) ==
    LET dfs == read_html(d)
        Q == {i \in 1..Len(dfs) : Qualifies(dfs[i])}
    IN  IF Q = {} THEN None ELSE dfs[CHOOSE i \in Q : \A j \in Q : i <= j]

\* year_map: the columns of df.columns[1:] whose header holds 20\d{2}, in order
YearColumns(df) ==
    SelectSeq([c \in 1..Len(df.columns) |-> c],
              LAMBDA c : c >= 2 /\ SearchYear(df.columns[c]) # None)

\* the mask of process_table on a stripped raw_value
TableValueKept(raw) == StrMatchDecimal(Remove(raw, {"(", ")", ","}))

\* val = raw.replace(',', '').replace('(', '-').replace(')', '')
Normalise(raw) == Remove(Replace(Remove(raw, {","}), "(", "-"), {")"})

process_table(df, co, ds) ==
    LET cell(c, r) ==
            LET raw   == Strip(df.data[r][c])
                label == Strip(CellStr(df.data[r][1]))
                pe    == FirstDate(ds, SearchYear(df.columns[c]))
            IN  IF df.data[r][c] # None /\ TableValueKept(raw) /\ pe # None
                THEN <<Fact(co, pe, SubNonWord(label), label, Normalise(raw), <<>>,
                            "tabular", <<df.tbl, r + 1, c>>, df.columns[c])>>
                ELSE <<>>
        column(c) == Flatten([r \in 1..Len(df.data) |-> cell(c, r)])
        yc == YearColumns(df)
    IN  Flatten([k \in 1..Len(yc) |-> column(yc[k])])

-----------------------------------------------------------------------------
(* extract_table_facts: the BeautifulSoup table scanner. *)

\* text(cell): the cell's text with '\xa0' replaced by a space, stripped
text(cell) == Strip(Replace(cell, Nbsp, " "))

\* yrs of a row: the year token of each cell of cells[1:], None without one
RowYears(cells) == [j \in 1..(Len(cells) - 1) |-> SearchYearWord(text(cells[j + 1]))]

\* the row is a header row: at least 3 cells, at least 2 year tokens that start a date
IsHeaderRow(cells, ds) ==
    /\ Len(cells) >= 3
    /\ LET yrs == RowYears(cells)
       IN  Cardinality({j \in 1..Len(yrs) :
               yrs[j] # None /\ \E i \in 1..Len(ds) : StartsWith(ds[i], yrs[j])}) >= 2

\* header_idx (1-based), 0 for None
HeaderIdx(tbl, ds) ==
    LET H == {i \in 1..Len(tbl) : IsHeaderRow(tbl[i], ds)}
    IN  IF H = {} THEN 0 ELSE CHOOSE i \in H : \A j \in H : i <= j

\* data_start (1-based): the row after the header, or the one after a currency row
DataStart(tbl, h) ==
    IF /\ h + 1 <= Len(tbl)
       /\ \A c \in 1..Len(tbl[h + 1]) :
             FullMatchCurrency(text(tbl[h + 1][c])) \/ text(tbl[h + 1][c]) = <<>>
    THEN h + 2
    ELSE h + 1

\* clean = raw.replace(',', '').replace('(', '-').replace(')', '').strip()
Clean(raw) == Strip(Normalise(raw))

\* the facts of one table, <<>> when it has no header row
ScanTable(tbl, t, co, ds) ==
    LET h == HeaderIdx(tbl, ds)
        header_years == RowYears(tbl[h])
        cell(r, j) ==
            LET cells == tbl[r]
                yr    == header_years[j]
                clean == Clean(text(cells[j + 1]))
                pe    == FirstDate(ds, yr)
            IN  IF ~(yr = None \/ j >= Len(cells)) /\ FullMatchDecimal(clean) /\ pe # None
                THEN <<Fact(co, pe, SubNonWord(text(cells[1])), text(cells[1]), clean, <<>>,
                            "heuristic", <<t, r, j + 1>>, tbl[h][j + 1])>>
                ELSE <<>>
        row(r) ==
            IF Len(tbl[r]) < 2 \/ ~HasAlpha(text(tbl[r][1])) THEN <<>>
            ELSE Flatten([j \in 1..Len(header_years) |-> cell(r, j)])
    IN  IF h = 0 THEN <<>>
        ELSE Flatten([k \in 1..(Len(tbl) - DataStart(tbl, h) + 1) |->
                         row(DataStart(tbl, h) + k - 1)])

\* ScanFrom without the early return: the facts of every table
RECURSIVE ScanFromAll(_, _, _, _)
ScanFromAll(T, t, co, ds) ==
    IF t > Len(T) THEN <<>>
    ELSE ScanTable(T[t], t, co, ds) \o ScanFromAll(T, t + 1, co, ds)

\* the for loop over the tables from table t on: the first non-empty facts
RECURSIVE ScanFrom(_, _, _, _)
ScanFrom(T, t, co, ds) ==
    IF t > Len(T) THEN <<>>
    ELSE LET facts == ScanTable(T[t], t, co, ds)
         IN  IF facts # <<>> THEN facts ELSE ScanFrom(T, t + 1, co, ds)

extract_table_facts(d) ==
    LET cd == extract_company_and_dates(d)
    IN  ScanFrom(d.tables, 1, cd.company, cd.dates)

-----------------------------------------------------------------------------
(* The documents the specifications draw from. *)

D23 == <<"2", "0", "2", "3", "-", "1", "2", "-", "3", "1">>

D22 == <<"2", "0", "2", "2", "-", "1", "2", "-", "3", "1">>

D23h == <<"2", "0", "2", "3", "-", "0", "6", "-", "3", "0">>

CtxId1 == <<"c", "1">>

CtxId2 == <<"c", "2">>

CtxId9 == <<"c", "9">>

\* the entity identifier and contexts of a document
Heads == {
    [identifiers |-> <<[inEntity |-> FALSE, text |-> <<"9", "9">>],
                       [inEntity |-> TRUE, text |-> <<" ", "0", "7", " ">>]>>,
     contexts    |-> <<[id |-> CtxId1, endDate |-> D23],
                       [id |-> CtxId2, endDate |-> D22]>>],
    [identifiers |-> <<>>,
     contexts    |-> <<[id |-> CtxId1, endDate |-> <<" ">> \o D23h \o <<" ">>],
                       [id |-> <<>>, endDate |-> D22],
                       [id |-> CtxId2, endDate |-> <<>>],
                       [id |-> CtxId2, endDate |-> D23],
                       [id |-> CtxId1, endDate |-> D23h]>>],
    [identifiers |-> <<[inEntity |-> TRUE, text |-> <<"0", "7">>]>>,
     contexts    |-> <<>>]}

\* kept; its key is that of the first cell of TblYears
ElAb ==
    [name |-> <<"p", ":", "A", "b">>, contextRef |-> CtxId1, text |-> <<"1", ",", "2", "5", "0">>, title |-> <<>>, unitRef |-> <<"G", "B", "P">>]

\* no name attribute
ElNoName ==
    [name |-> <<>>, contextRef |-> CtxId1, text |-> <<"5">>, title |-> <<>>, unitRef |-> <<>>]

\* a contextRef that no context declares
ElUnknown ==
    [name |-> <<"C", "d">>, contextRef |-> CtxId9, text |-> <<"7">>, title |-> <<>>, unitRef |-> <<>>]

\* no contextRef attribute
ElNoRef ==
    [name |-> <<"C", "d">>, contextRef |-> <<>>, text |-> <<"7">>, title |-> <<>>, unitRef |-> <<>>]

\* a text that is no number
ElText ==
    [name |-> <<"C", "d">>, contextRef |-> CtxId1, text |-> <<"n", "/", "a">>, title |-> <<>>, unitRef |-> <<>>]

\* kept: float() reads the text
ElExp ==
    [name |-> <<"x", ":", "y", ":", "C", "d">>, contextRef |-> CtxId2, text |-> <<" ", "1", "e", "3", " ">>, title |-> <<" ", "T", " ">>, unitRef |-> <<" ">>]

ElemPool == {ElAb, ElNoName, ElUnknown, ElNoRef, ElText, ElExp}

\* a qualifying table with year headers; one cell is a number followed by text
TblYears ==
    <<<<<<>>, <<"2", "0", "2", "3">>, <<"2", "0", "2", "2">>>>,
    <<<<"A", "b">>, <<"1", ",", "2", "5", "0">>, <<"(", "3", "0", ")">>>>,
    <<<<"C", "d">>, <<"1", "2", "a">>, <<>>>>>>

\* a qualifying table whose first row is a title, the years in its second row
TblTitle ==
    <<<<<<"B", "a", "l", "a", "n", "c", "e">>, <<>>, <<>>>>,
    <<<<>>, <<"2", "0", "2", "3">>, <<"2", "0", "2", "2">>>>,
    <<<<"$">>, <<"$">>, <<"$">>>>,
    <<<<"A", "b">>, <<"7">>, <<"8">>>>>>

\* one numeric column only: no DataFrame qualifies
TblSparse ==
    <<<<<<>>, <<"2", "0", "2", "3">>, <<"2", "0", "2", "2">>>>,
    <<<<"A", "b">>, <<"(", "1", ",", "2", "5", "0", ")">>, <<"n", "/", "a">>>>>>

\* a qualifying table whose header years start no context date
TblOld ==
    <<<<<<>>, <<"2", "0", "1", "9">>, <<"2", "0", "1", "8">>>>,
    <<<<"A", "b">>, <<"1">>, <<"2">>>>>>

\* a header row and no cell that is a number
TblBlank ==
    <<<<<<>>, <<"D", "e", "c", Nbsp, "2", "0", "2", "3">>, <<"2", "0", "2", "2">>>>,
    <<<<"A", "b">>, <<"n", "/", "a">>, <<"-">>>>>>

\* a currency row after the header, a label without letters, a short row
TblUnit ==
    <<<<<<>>, <<"2", "0", "2", "3">>, <<"2", "0", "2", "2", " ", "£">>>>,
    <<<<>>, <<"£">>, <<"€">>>>,
    <<<<"1", "2">>, <<"3">>, <<"4">>>>,
    <<<<"C", "d">>>>,
    <<<<"C", "d">>, <<"5">>, <<"x">>>>>>

\* the header is the second row; one header cell has no year
TblLate ==
    <<<<<<"E", "f">>, <<"1">>, <<"x">>>>,
    <<<<>>, <<"2", "0", "2", "3">>, <<"n", "o", "t", "e">>, <<"2", "0", "2", "2">>>>,
    <<<<"E", "f">>, <<"(", "7", ")", Nbsp>>, <<"9">>, <<"1", ".", "5">>>>>>

\* two columns: never a header row
TblNarrow ==
    <<<<<<>>, <<"2", "0", "2", "3">>>>,
    <<<<"A", "b">>, <<"3">>>>>>

\* headers that are more than a year; one year token is not a word of its own
TblTwice ==
    <<<<<<>>, <<"D", "e", "c", " ", "2", "0", "2", "3">>, <<"F", "Y", "2", "0", "2", "3">>, <<"3", "0", " ", "J", "u", "n", " ", "2", "0", "2", "3">>>>,
    <<<<"G", "h">>, <<"4">>, <<"5">>, <<"6">>>>>>

TablePool == {TblTwice, TblYears, TblTitle, TblSparse, TblOld, TblBlank, TblUnit, TblLate, TblNarrow}

\* the sequences of at most n elements of S
RECURSIVE SeqsUpTo(_, _)
SeqsUpTo(S, n) ==
    IF n = 0 THEN {<<>>}
    ELSE LET R == SeqsUpTo(S, n - 1)
         IN  R \cup {Append(r, x) : r \in {q \in R : Len(q) = n - 1}, x \in S}

Doc(wf, head, es, ts) ==
    [wellFormed |-> wf, identifiers |-> head.identifiers, contexts |-> head.contexts,
     elems |-> es, tables |-> ts]

\* a document whose bytes are truncated: iterparse raises before its end
Truncated == Doc(FALSE, CHOOSE h \in Heads : h.identifiers = <<>>, <<ElAb>>, <<TblYears>>)

\* the documents an archive entry may hold
DocPool ==
    {Truncated} \cup
    {Doc(TRUE, h, es, ts) :
        h \in {g \in Heads : g.contexts # <<>>},
        es \in {<<>>, <<ElUnknown, ElAb, ElExp>>},
        ts \in {<<>>, <<TblYears>>, <<TblTitle>>, <<TblSparse>>, <<TblOld>>,
                <<TblBlank, TblUnit>>, <<TblBlank, TblSparse>>}}

\* the documents the strategies are applied to one by one
StrategyDocs ==
    {Doc(TRUE, h, es, <<>>) : h \in Heads, es \in SeqsUpTo(ElemPool, MaxElems)}
    \cup {Doc(TRUE, h, <<>>, ts) : h \in Heads, ts \in SeqsUpTo(TablePool, MaxTables)}

\* filenames of archive entries; the last is no document
NamePool == <<<<"a", ".", "h", "t", "m", "l">>, <<"B", ".", "X", "H", "T", "M", "L">>, <<"c", ".", "x", "h", "t", "m", "l">>, <<"d", ".", "h", "t", "m", "l">>>>

OtherName == <<"b", ".", "t", "x", "t">>

Reverse(s) == [i \in 1..Len(s) |-> s[Len(s) + 1 - i]]

\* the archives: MaxDocs documents and one other entry, in two archive orders
Archives ==
    LET names == SubSeq(NamePool, 1, MaxDocs)
    IN  {<<OtherName>> \o names, Reverse(names) \o <<OtherName>>}

-----------------------------------------------------------------------------
(* main: the batch loop. *)

NoDoc == [wellFormed |-> TRUE, identifiers |-> <<>>, contexts |-> <<>>,
          elems |-> <<>>, tables |-> <<>>]

\* i.filename.lower().endswith(('.html', '.xhtml'))
IsHtmlName(name) ==
    \/ EndsWith(Lowered(name), <<".", "h", "t", "m", "l">>)
    \/ EndsWith(Lowered(name), <<".", "x", "h", "t", "m", "l">>)

\* SortedInfos without the sort: the .html/.xhtml entries in archive order
UnsortedInfos(entries) == SelectSeq(entries, IsHtmlName)

\* infos: the .html/.xhtml entries sorted by filename (the names of an archive differ)
SortedInfos(entries) ==
    SortedAsc({entries[i] : i \in {j \in 1..Len(entries) : IsHtmlName(entries[j])}})

\* the identity key of the seen set
Key(r) == <<r.company_number, r.period_end, r.metric_tag, r.value>>

\* Dedup without the seen set: every row is written
NoDedup(rs) == rs

\* Dedup keeping the last row of each key instead of the first
DedupLastWins(rs) ==
    LET later(k) == {Key(rs[m]) : m \in (k + 1)..Len(rs)}
    IN  Flatten([k \in 1..Len(rs) |-> IF Key(rs[k]) \in later(k) THEN <<>> ELSE <<rs[k]>>])

\* the rows the loop over rows writes: each row whose key no earlier row has
Dedup(rs) ==
    LET seen(k) == {Key(rs[m]) : m \in 1..(k - 1)}
    IN  Flatten([k \in 1..Len(rs) |-> IF Key(rs[k]) \in seen(k) THEN <<>> ELSE <<rs[k]>>])

\* writer.writerow for the rows of the document called name
Written(rs, name) == [k \in 1..Len(rs) |-> [file |-> name, rec |-> rs[k]]]

\* an exception leaves main: the with block closes the file, the run ends
Crash(call) ==
    /\ pc' = "crashed"
    /\ raised' = call
    /\ UNCHANGED <<infolist, infos, idx, buf, company, dates, rows, out, ran, handled>>

\* lines 250-253
Start ==
    /\ pc = "start"
    /\ infos' = SortedInfos(infolist)
    /\ idx' = 1
    /\ pc' = IF infos' = <<>> THEN "done" ELSE "read"
    /\ UNCHANGED <<infolist, buf, company, dates, rows, out, ran, raised, handled>>

\* lines 256-257 and 261: the entry's bytes, whatever document they hold
ReadEntry ==
    /\ pc = "read"
    /\ \E d \in DocPool : buf' = d
    /\ rows' = <<>>
    /\ ran' = {}
    /\ pc' = "resolve"
    /\ UNCHANGED <<infolist, infos, idx, company, dates, out, raised, handled>>

\* line 259
Resolve ==
    /\ pc = "resolve"
    /\ IF ParseRaises(buf)
       THEN Crash("extract_company_and_dates")
       ELSE /\ company' = extract_company_and_dates(buf).company
            /\ dates' = extract_company_and_dates(buf).dates
            /\ pc' = "structured"
            /\ UNCHANGED <<infolist, infos, idx, buf, rows, out, ran, raised, handled>>

\* line 262
Structured ==
    /\ pc = "structured"
    /\ IF ParseRaises(buf)
       THEN Crash("parse_instance_fileobj")
       ELSE /\ rows' = rows \o parse_instance_fileobj(buf)
            /\ ran' = ran \cup {"structured"}
            /\ pc' = "tables"
            /\ UNCHANGED <<infolist, infos, idx, buf, company, dates, out, raised, handled>>

\* lines 264-271
Tables ==
    /\ pc = "tables"
    /\ LET df == find_balance_sheet_df(buf)
       IN  IF df # None
           THEN /\ rows' = rows \o process_table(df, company, dates)
                /\ ran' = ran \cup {"tabular"}
                /\ pc' = "write"
                /\ UNCHANGED <<infolist, infos, idx, buf, company, dates, out,
                               raised, handled>>
           ELSE IF ParseRaises(buf)
           THEN Crash("extract_table_facts")
           ELSE /\ rows' = rows \o extract_table_facts(buf)
                /\ ran' = ran \cup {"tabular", "heuristic"}
                /\ pc' = "write"
                /\ UNCHANGED <<infolist, infos, idx, buf, company, dates, out,
                               raised, handled>>

\* lines 277-283, and the step of the for loop
Write ==
    /\ pc = "write"
    /\ out' = out \o Written(Dedup(rows), infos[idx])
    /\ handled' = handled \cup {infos[idx]}
    /\ idx' = idx + 1
    /\ pc' = IF idx = Len(infos) THEN "done" ELSE "read"
    /\ UNCHANGED <<infolist, infos, buf, company, dates, rows, ran, raised>>

Init ==
    /\ infolist \in Archives
    /\ infos = <<>>
    /\ idx = 0
    /\ pc = "start"
    /\ buf = NoDoc
    /\ company = <<>>
    /\ dates = <<>>
    /\ rows = <<>>
    /\ out = <<>>
    /\ ran = {}
    /\ raised = "none"
    /\ handled = {}

Next == Start \/ ReadEntry \/ Resolve \/ Structured \/ Tables \/ Write

Spec == Init /\ [][Next]_vars

-----------------------------------------------------------------------------
(* The strategies one by one: each applied to a document of StrategyDocs. *)

CallReader ==
    /\ pc = "call"
    /\ rows' = parse_instance_fileobj(buf)
    /\ ran' = {"structured"}
    /\ pc' = "returned"
    /\ UNCHANGED <<infolist, infos, idx, buf, company, dates, out, raised, handled>>

CallTabular ==
    /\ pc = "call"
    /\ LET df == find_balance_sheet_df(buf)
       IN  rows' = IF df = None THEN <<>> ELSE process_table(df, company, dates)
    /\ ran' = {"tabular"}
    /\ pc' = "returned"
    /\ UNCHANGED <<infolist, infos, idx, buf, company, dates, out, raised, handled>>

CallScanner ==
    /\ pc = "call"
    /\ rows' = extract_table_facts(buf)
    /\ ran' = {"heuristic"}
    /\ pc' = "returned"
    /\ UNCHANGED <<infolist, infos, idx, buf, company, dates, out, raised, handled>>

InitStrategies ==
    /\ infolist = <<>>
    /\ infos = <<>>
    /\ idx = 0
    /\ pc = "call"
    /\ buf \in StrategyDocs
    /\ company = extract_company_and_dates(buf).company
    /\ dates = extract_company_and_dates(buf).dates
    /\ rows = <<>>
    /\ out = <<>>
    /\ ran = {}
    /\ raised = "none"
    /\ handled = {}

NextStrategies == CallReader \/ CallTabular \/ CallScanner

SpecStrategies == InitStrategies /\ [][NextStrategies]_vars

-----------------------------------------------------------------------------
(* Properties.  After Write, and until the next ReadEntry, buf, rows and   *)
(* ran are still those of the document just written, infos[idx - 1].       *)

\* the current document's rows have been written
JustWritten == pc \in {"read", "done"} /\ idx > 1

\* the records written for the document called name, in output order
OutOf(name) == SelectSeq(out, LAMBDA o : o.file = name)

\* the first row of rs with the key of r
FirstWithKey(rs, r) ==
    rs[CHOOSE k \in 1..Len(rs) :
          /\ Key(rs[k]) = Key(r)
          /\ \A m \in 1..Len(rs) : Key(rs[m]) = Key(r) => k <= m]

\* the position of the row r in rs (rows differ in their history fields)
PosIn(rs, r) == CHOOSE k \in 1..Len(rs) : rs[k] = r

\* the period-end dates the contexts of d declare
DeclaredDates(d) ==
    {Strip(d.contexts[i].endDate) :
        i \in {j \in 1..Len(d.contexts) :
                  d.contexts[j].id # <<>> /\ d.contexts[j].endDate # <<>>}}

\* the text of the cell a table-derived fact was read from
CellOf(d, f) == d.tables[f.at[1]][f.at[2]][f.at[3]]

\* the year token of a fact's column header, as its strategy extracts it
HeaderYear(f) ==
    IF f.src = "tabular" THEN SearchYear(f.hdr) ELSE SearchYearWord(text(f.hdr))

(* C1: the records written for one document contain no two facts with the *)
(* same identity key (company_number, period_end, metric_tag, value).      *)
C1_NoDuplicateKeys ==
    \A i, j \in 1..Len(out) :
        (i < j /\ out[i].file = out[j].file) => Key(out[i].rec) # Key(out[j].rec)

\* a document whose strategies produced one key twice has been written
C1_Witness ==
    /\ JustWritten
    /\ \E a, b \in 1..Len(rows) : a < b /\ Key(rows[a]) = Key(rows[b])
    /\ Len(OutOf(infos[idx - 1])) < Len(rows)

(* C2: the record written for a key is the first row with that key in the  *)
(* concatenation order; when the fact reader produced the key, the record  *)
(* carries the fact reader's metric_label and unit.                        *)
C2_FirstSeenWins ==
    JustWritten =>
        \A k \in 1..Len(rows) :
            LET o == OutOf(infos[idx - 1])
                W == {i \in 1..Len(o) : Key(o[i].rec) = Key(rows[k])}
            IN  /\ Cardinality(W) = 1
                /\ \A i \in W :
                      /\ o[i].rec = FirstWithKey(rows, rows[k])
                      /\ \A m \in 1..Len(rows) :
                            (rows[m].src = "structured" /\ Key(rows[m]) = Key(rows[k])) =>
                                /\ o[i].rec.src = "structured"
                                /\ o[i].rec.metric_label =
                                       FirstWithKey(rows, rows[m]).metric_label
                                /\ o[i].rec.unit = FirstWithKey(rows, rows[m]).unit

\* a structured and a table fact shared a key, with different labels and units
C2_Witness ==
    /\ JustWritten
    /\ \E a, b \in 1..Len(rows) :
          /\ rows[a].src = "structured"
          /\ rows[b].src \in {"tabular", "heuristic"}
          /\ Key(rows[a]) = Key(rows[b])
          /\ rows[a].metric_label # rows[b].metric_label
          /\ rows[a].unit # rows[b].unit
          /\ \E i \in 1..Len(out) : out[i].rec = rows[a]

\* the table has at least 3 columns and, among the columns after the first, at
\* least 2 with a cell below the first row that reads as a number without "(),"
DenseTable(tbl) ==
    /\ tbl # <<>>
    /\ \E r \in 1..Len(tbl) : Len(tbl[r]) >= 3
    /\ \E c1, c2 \in 2..Max({Len(tbl[r]) : r \in 1..Len(tbl)}) :
          /\ c1 # c2
          /\ \A c \in {c1, c2} : \E r \in 2..Len(tbl) :
                /\ c <= Len(tbl[r])
                /\ ToNumericNotNa(Remove(tbl[r][c], {"(", ")", ","}))

\* the table scanner's facts among rs
ScannerRows(rs) == SelectSeq(rs, LAMBDA r : r.src = "heuristic")

(* C3, as claimed: whenever the Tabular Extractor yields no facts, whatever *)
(* the reason, the Heuristic Table Scanner is run on the document.          *)
C3_FallbackWheneverEmpty ==
    pc = "write" =>
        ((\A k \in 1..Len(rows) : rows[k].src # "tabular") => "heuristic" \in ran)

(* C3, amended: the Heuristic Table Scanner is run exactly when the Tabular *)
(* Extractor finds no qualifying table (none with at least 3 columns and 2  *)
(* numeric columns after the first), and then its facts are added to the    *)
(* document's rows and their keys to its output; a qualifying table that    *)
(* yields no fact does not trigger it.                                      *)
C3_FallbackWhenNoTable ==
    (pc = "write" \/ JustWritten) =>
        /\ "heuristic" \in ran <=>
               \A t \in 1..Len(buf.tables) : ~DenseTable(buf.tables[t])
        /\ "heuristic" \in ran =>
               /\ ScannerRows(rows) = extract_table_facts(buf)
               /\ JustWritten =>
                      \A k \in 1..Len(rows) : \E i \in 1..Len(out) :
                          /\ out[i].file = infos[idx - 1]
                          /\ Key(out[i].rec) = Key(rows[k])

\* no table qualified, the scanner ran and its fact was written
C3_Witness ==
    /\ JustWritten
    /\ buf.tables # <<>>
    /\ "heuristic" \in ran
    /\ \E i \in 1..Len(out) :
          out[i].file = infos[idx - 1] /\ out[i].rec.src = "heuristic"

(* C4: a truncated or corrupt document contributes no facts and does not   *)
(* stop the batch: no exception leaves the loop, and when the run ends     *)
(* every document of the archive has been processed.                       *)
C4_BatchIsolation ==
    /\ raised = "none"
    /\ pc = "done" => handled = {infos[i] : i \in 1..Len(infos)}
    /\ pc \in {"done", "crashed"} => idx = Len(infos) + 1

(* C5: within one document a failing strategy contributes an empty result  *)
(* and the remaining strategies still run: once the document's processing  *)
(* has ended, the fact reader and a table strategy have returned.          *)
C5_StrategyIsolation ==
    (pc \in {"done", "crashed"} /\ buf # NoDoc) =>
        /\ "structured" \in ran
        /\ "tabular" \in ran \/ "heuristic" \in ran

(* C6: every fact of the Tabular Extractor or the Heuristic Table Scanner  *)
(* has a value that is a well-formed decimal string, and is read from a    *)
(* cell whose whole text is one once "(", ")" and "," are removed.         *)
C6_WellFormedValues ==
    pc = "returned" =>
        \A k \in 1..Len(rows) :
            rows[k].src \in {"tabular", "heuristic"} =>
                /\ FullMatchDecimal(rows[k].value)
                /\ FullMatchDecimal(Remove(Strip(CellOf(buf, rows[k])), {"(", ")", ","}))

(* C7: every fact's period_end is a date declared by a context of the same *)
(* document; a table-derived fact's period_end starts with the 4-digit     *)
(* year of its column header, so a column whose year starts no context     *)
(* date yields no fact.                                                    *)
C7_DeclaredPeriodEnd ==
    pc = "returned" =>
        \A k \in 1..Len(rows) :
            /\ rows[k].period_end \in DeclaredDates(buf)
            /\ rows[k].src \in {"tabular", "heuristic"} =>
                  /\ HeaderYear(rows[k]) # None
                  /\ Len(HeaderYear(rows[k])) = 4
                  /\ StartsWith(rows[k].period_end, HeaderYear(rows[k]))

\* a table fact under a header that is more than a year, with two dates of that year
C7_Witness ==
    /\ pc = "returned"
    /\ \E k \in 1..Len(rows) :
          /\ rows[k].src = "heuristic"
          /\ rows[k].hdr # HeaderYear(rows[k])
          /\ Cardinality({d \in DeclaredDates(buf) :
                             StartsWith(d, HeaderYear(rows[k]))}) = 2

\* the elements the claim says are emitted
C8_Emitted(d) ==
    {i \in 1..Len(d.elems) :
        /\ d.elems[i].name # <<>>
        /\ \E j \in 1..Len(d.contexts) :
              /\ d.contexts[j].id # <<>>
              /\ d.contexts[j].endDate # <<>>
              /\ d.contexts[j].id = d.elems[i].contextRef
        /\ FloatParses(Remove(Strip(d.elems[i].text), {","}))}

(* C8: the Structured Fact Reader emits a fact for an element if and only  *)
(* if it has a name, a context reference the context map holds and a text  *)
(* that parses as a number without its thousands separators; the others    *)
(* are dropped without effect on the elements around them, and a fact's    *)
(* period_end is the context map's date for its context reference.         *)
C8_ReaderEmitsIff ==
    (pc = "returned" /\ ran = {"structured"}) =>
        /\ {rows[k].at[1] : k \in 1..Len(rows)} = C8_Emitted(buf)
        /\ \A k, m \in 1..Len(rows) : k < m => rows[k].at[1] < rows[m].at[1]
        /\ \A k \in 1..Len(rows) :
              rows[k].period_end =
                  ScanContexts(buf.contexts)[buf.elems[rows[k].at[1]].contextRef]

\* an element was dropped and the one after it emitted
C8_Witness ==
    /\ pc = "returned"
    /\ ran = {"structured"}
    /\ \E k \in 1..Len(rows) :
          rows[k].at[1] > 1 /\ (rows[k].at[1] - 1) \notin C8_Emitted(buf)

(* C9: documents are written in filename order, one document's records     *)
(* before the next's; within a document the records keep the order of the  *)
(* concatenation, every structured fact before every table-derived one.    *)
C9_OutputOrder ==
    /\ \A i, j \in 1..Len(out) :
          i < j =>
              /\ ~StrLess(out[j].file, out[i].file)
              /\ out[i].file = out[j].file =>
                    ~(out[i].rec.src # "structured" /\ out[j].rec.src = "structured")
    /\ JustWritten =>
          LET o == OutOf(infos[idx - 1])
          IN  \A i, j \in 1..Len(o) :
                  i < j => PosIn(rows, o[i].rec) < PosIn(rows, o[j].rec)

\* two documents written, the second with structured and table records
C9_Witness ==
    /\ pc = "done"
    /\ \E i, j \in 1..Len(out) : out[i].file # out[j].file
    /\ \E i, j \in 1..Len(out) :
          /\ out[i].file = out[j].file
          /\ out[i].file = infos[Len(infos)]
          /\ out[i].rec.src = "structured"
          /\ out[j].rec.src = "tabular"

\* the row is a header row for the dates of D: at least 2 cells after the first
\* hold a year token that starts a date
C10_HeaderRow(cells, D) ==
    \E a, b \in 2..Len(cells) :
        /\ a # b
        /\ \A c \in {a, b} :
              /\ SearchYearWord(text(cells[c])) # None
              /\ \E x \in D : StartsWith(x, SearchYearWord(text(cells[c])))

(* C10: the facts of one run of the Heuristic Table Scanner come from a    *)
(* single table, the first that has a header row and yields a fact; their  *)
(* columns are read under the first header row of that table; earlier      *)
(* tables yield nothing, later ones never contribute, and without such a   *)
(* table the result is empty.                                              *)
C10_SingleTable ==
    (pc = "returned" /\ ran = {"heuristic"}) =>
        LET T == buf.tables
            yields(t) == ScanTable(T[t], t, company, dates) # <<>>
        IN  /\ rows = <<>> <=> \A t \in 1..Len(T) : ~yields(t)
            /\ \A k \in 1..Len(rows) :
                  LET w == rows[k].at[1]
                      H == {r \in 1..Len(T[w]) : C10_HeaderRow(T[w][r], DeclaredDates(buf))}
                  IN  /\ w = rows[1].at[1]
                      /\ yields(w)
                      /\ \A t \in 1..(w - 1) : ~yields(t)
                      /\ H # {}
                      /\ \A r \in H : rows[k].at[2] > r
                      /\ \E r \in H :
                            /\ \A q \in H : r <= q
                            /\ rows[k].hdr = T[w][r][rows[k].at[3]]
            /\ rows # <<>> => rows = ScanTable(T[rows[1].at[1]], rows[1].at[1], company, dates)

\* an earlier table had a header row and no fact, a later table would yield facts
C10_Witness ==
    /\ pc = "returned"
    /\ ran = {"heuristic"}
    /\ Len(buf.tables) >= 3
    /\ rows # <<>>
    /\ rows[1].at[1] = 2
    /\ \E r \in 1..Len(buf.tables[1]) :
          C10_HeaderRow(buf.tables[1][r], DeclaredDates(buf))
    /\ ScanTable(buf.tables[3], 3, company, dates) # <<>>

=============================================================================
